---- MODULE Spec2Model ----
(***************************************************************************)
(* Model of the client-side session store (zustand store with the persist *)
(* middleware), the route guard and screen table (react-router), and the   *)
(* query cache the protected screens read through (react-query).           *)
(***************************************************************************)
EXTENDS Naturals, Sequences, FiniteSets, TLC

VARIABLES
    user,             \* AuthState.user: a User object or null
    token,            \* AuthState.token: a string or null
    isAuthenticated,  \* AuthState.isAuthenticated
    storage,          \* localStorage item 'auth-storage': absent or a JSON text
    lastOp,           \* history: the operation the last step performed, with its arguments
    location,         \* the router's current path
    requested,        \* history: the path of the navigation intent being served
    pc,               \* where rendering stands: "guard", "screen", "suspended", "settled",
                      \* or "caught" while the ErrorBoundary shows its fallback
    decision,         \* the guard's decision for the current location, "none" before it
    lazy,             \* per lazy screen: "uninitialized", "pending", "resolved", "rejected"
    loads,            \* history: per lazy screen, how often its loader was invoked
    mounted,          \* what is shown: "none", the Suspense "fallback", a screen, or
                      \* the ErrorBoundary's "ErrorFallback"
    boundary,         \* the state of the top-level ErrorBoundary
    hops,             \* history: redirects made by the render pass in progress
    query,            \* the query cache's entry for the key ['users']
    request,          \* one request run by the query client, with its retries
    form              \* the form machine: its state, its context and its services

storeVars == <<user, token, isAuthenticated, storage>>

routerVars == <<location, requested, pc, decision, lazy, loads, mounted, boundary>>

appVars == <<location, requested, pc, decision, lazy, loads, mounted, boundary,
             hops, query, request, form>>

\* What the steps of the store, the router and the cache entry leave alone.
serviceVars == <<request, form>>

\* What the steps of a request leave alone.
pageVars == <<user, token, isAuthenticated, storage,
              location, requested, pc, decision, lazy, loads, mounted, boundary,
              hops, query>>

vars == <<user, token, isAuthenticated, storage, lastOp,
          location, requested, pc, decision, lazy, loads, mounted, boundary,
          hops, query, request, form>>

(***************************************************************************)
(* JavaScript values.  Every value is a record of the same shape so that   *)
(* values of different JavaScript types can be compared.                   *)
(***************************************************************************)
JNull == [tag |-> "null", s |-> "", f |-> <<>>]

JStr(x) == [tag |-> "str", s |-> x, f |-> <<>>]

JNum(x) == [tag |-> "num", s |-> x, f |-> <<>>]

JBool(b) == [tag |-> "bool", s |-> IF b THEN "true" ELSE "false", f |-> <<>>]

JObj(fn) == [tag |-> "obj", s |-> "", f |-> fn]

\* JavaScript truthiness of the values above.
Truthy(v) ==
    CASE v.tag = "null" -> FALSE
      [] v.tag = "str"  -> v.s # ""
      [] v.tag = "num"  -> v.s # "0"
      [] v.tag = "bool" -> v.s = "true"
      [] OTHER          -> TRUE

HasKey(v, k) == v.tag = "obj" /\ k \in DOMAIN v.f

(***************************************************************************)
(* JSON text, as a sequence of lexical tokens.                             *)
(***************************************************************************)
Punct(c) == [k |-> "punct", v |-> c]

Lit(kind, text) == [k |-> kind, v |-> text]

\* The order in which JSON.stringify emits the keys the program writes.
KeyOrder == <<"state", "token", "user", "isAuthenticated", "id", "email", "version">>

RECURSIVE Stringify(_)
RECURSIVE StringifyMembers(_, _, _)

\* The members of object o whose keys are KeyOrder[i..], comma separated.
StringifyMembers(o, i, first) ==
    IF i > Len(KeyOrder) THEN <<>>
    ELSE IF KeyOrder[i] \in DOMAIN o.f
         THEN (IF first THEN <<>> ELSE <<Punct(",")>>)
              \o <<Lit("str", KeyOrder[i]), Punct(":")>>
              \o Stringify(o.f[KeyOrder[i]])
              \o StringifyMembers(o, i + 1, FALSE)
         ELSE StringifyMembers(o, i + 1, first)

\* JSON.stringify
Stringify(v) ==
    IF v.tag = "obj"
    THEN <<Punct("{")>> \o StringifyMembers(v, 1, TRUE) \o <<Punct("}")>>
    ELSE <<Lit(v.tag, v.s)>>

ParseFail == [ok |-> FALSE, v |-> JNull, n |-> 0]

RECURSIVE ParseValue(_, _)
RECURSIVE ParseMembers(_, _, _)

\* The members of an object from position i on, after "{" or ","; acc holds
\* the members read so far.
ParseMembers(t, i, acc) ==
    IF i + 2 > Len(t) \/ t[i].k # "str" \/ t[i + 1] # Punct(":") THEN ParseFail
    ELSE LET m == ParseValue(t, i + 2) IN
         IF ~m.ok \/ m.n > Len(t) THEN ParseFail
         ELSE LET acc2 == [k \in DOMAIN acc \cup {t[i].v} |->
                              IF k = t[i].v THEN m.v ELSE acc[k]] IN
              IF t[m.n] = Punct("}") THEN [ok |-> TRUE, v |-> JObj(acc2), n |-> m.n + 1]
              ELSE IF t[m.n] = Punct(",") THEN ParseMembers(t, m.n + 1, acc2)
              ELSE ParseFail

\* One JSON value starting at position i; n is the position after it.
ParseValue(t, i) ==
    IF i > Len(t) THEN ParseFail
    ELSE IF t[i].k = "punct"
         THEN IF t[i] # Punct("{") \/ i + 1 > Len(t) THEN ParseFail
              ELSE IF t[i + 1] = Punct("}")
                   THEN [ok |-> TRUE, v |-> JObj(<<>>), n |-> i + 2]
                   ELSE ParseMembers(t, i + 1, <<>>)
         ELSE [ok |-> TRUE, v |-> [tag |-> t[i].k, s |-> t[i].v, f |-> <<>>], n |-> i + 1]

\* Mutant: a parser that stops after the first value and ignores the rest.
ParseJSON_IgnoresRest(t) == ParseValue(t, 1)

\* JSON.parse: fails (throws) unless the whole text is one JSON value.
ParseJSON(t) ==
    LET p == ParseValue(t, 1) IN
    IF p.ok /\ p.n = Len(t) + 1 THEN p ELSE ParseFail

(***************************************************************************)
(* localStorage item under the key 'auth-storage'.                         *)
(***************************************************************************)
Absent == [present |-> FALSE, text |-> <<>>]

Item(text) == [present |-> TRUE, text |-> text]

\* Mutant: no partialize option, the whole state is written.
partialize_WholeState(st) ==
    JObj([token |-> st.token, user |-> st.user,
          isAuthenticated |-> JBool(st.isAuthenticated)])

\* persist option `partialize`: the part of the state that is written.
partialize(st) == JObj([token |-> st.token, user |-> st.user])

\* persist option `version` (the middleware's default).
Version == JNum("0")

\* The middleware's setItem: the text it writes for state st.
setItem(st) == Item(Stringify(JObj([state |-> partialize(st), version |-> Version])))

\* The state the `create` initializer returns.
InitialState == [user |-> JNull, token |-> JNull, isAuthenticated |-> FALSE]

\* The middleware's default merge, {...currentState, ...persistedState},
\* restricted to the three data fields of AuthState.
merge(persisted, current) ==
    IF persisted.tag # "obj" THEN current
    ELSE [user |-> IF HasKey(persisted, "user") THEN persisted.f["user"] ELSE current.user,
          token |-> IF HasKey(persisted, "token") THEN persisted.f["token"] ELSE current.token,
          isAuthenticated |->
              IF HasKey(persisted, "isAuthenticated")
              THEN Truthy(persisted.f["isAuthenticated"])
              ELSE current.isAuthenticated]

\* The middleware's hydrate: what the store holds once it has read item.
\* A JSON.parse exception is caught by the middleware and leaves the state
\* as the initializer set it.
hydrate(item) ==
    IF ~item.present THEN InitialState
    ELSE LET p == ParseJSON(item.text) IN
         IF ~p.ok THEN InitialState
         ELSE IF ~Truthy(p.v) THEN InitialState
         ELSE IF HasKey(p.v, "version") /\ p.v.f["version"].tag = "num"
                 /\ p.v.f["version"] # Version
              THEN InitialState
         ELSE IF HasKey(p.v, "state") THEN merge(p.v.f["state"], InitialState)
         ELSE InitialState

(***************************************************************************)
(* Bounds and input values.                                                *)
(***************************************************************************)
MaxId == 2

MaxToken == 2

Ids == {ToString(i) : i \in 1..MaxId}

\* User objects callers pass to login.
Users == {JObj([id |-> JStr(i), email |-> JStr("a@" \o i)]) : i \in Ids}

\* Credential strings callers pass to login.
TokenStrings == {JStr("tok" \o ToString(i)) : i \in 1..MaxToken}

\* login's arguments at run time: the declared types, and the missing (null)
\* and empty values the type annotations do not exclude at run time.
LoginUsers == Users \cup {JNull, JObj(<<>>)}

LoginTokens == TokenStrings \cup {JNull, JStr("")}

\* updateUser's arguments: Partial<User>.
Partials ==
    {JObj(<<>>)}
    \cup {JObj([email |-> JStr("b@" \o i)]) : i \in Ids}
    \cup {JObj([id |-> JStr(i)]) : i \in Ids}
    \cup {JObj([id |-> JStr(i), email |-> JStr("b@" \o i)]) : i \in Ids}

\* The texts the store itself can have written in an earlier process.
WrittenItems ==
    {setItem([user |-> u, token |-> t, isAuthenticated |-> FALSE]) :
        u \in Users \cup {JNull}, t \in TokenStrings \cup {JNull}}

\* A written text cut short: every proper prefix of it.
Truncations(item) == {Item(SubSeq(item.text, 1, n)) : n \in 0..(Len(item.text) - 1)}

\* Texts that are not one complete JSON value: a written text cut short, or
\* one followed by a stray closing brace.
MalformedItems ==
    UNION {Truncations(i) : i \in WrittenItems}
    \cup {Item(i.text \o <<Punct("}")>>) : i \in WrittenItems}

SampleUser == CHOOSE u \in Users : TRUE

SampleToken == CHOOSE t \in TokenStrings : TRUE

SampleItem == setItem([user |-> SampleUser, token |-> SampleToken, isAuthenticated |-> FALSE])

\* Texts that did not come from a complete write of this version of the store.
ForeignItems ==
    { Item(Stringify(JNull)),
      Item(Stringify(JObj(<<>>))),
      Item(Stringify(JObj([state |-> JObj([token |-> SampleToken]), version |-> Version]))),
      Item(Stringify(JObj([state |-> partialize([user |-> SampleUser, token |-> SampleToken,
                                                  isAuthenticated |-> FALSE]),
                           version |-> JNum("1")]))),
      Item(Stringify(JObj([state |-> JObj([token |-> JNull, user |-> JNull,
                                           isAuthenticated |-> JBool(TRUE)]),
                           version |-> Version]))) }

\* What localStorage can hold under the key when the process starts.
BootItems == {Absent} \cup WrittenItems \cup MalformedItems \cup ForeignItems

(***************************************************************************)
(* The store: zustand `set` wrapped by persist, and the three actions.     *)
(***************************************************************************)
\* w is the pair of the in-memory state and the storage item.
World == [st |-> [user |-> user, token |-> token, isAuthenticated |-> isAuthenticated],
          item |-> storage]

\* set(partial) of the persisted store: shallow merge, then setItem.
set(w, partial) ==
    LET st2 == [k \in DOMAIN w.st |-> IF k \in DOMAIN partial THEN partial[k] ELSE w.st[k]]
    IN [st |-> st2, item |-> setItem(st2)]

\* Object spread {...a, ...b}.
Spread(a, b) ==
    JObj([k \in DOMAIN a.f \cup DOMAIN b.f |-> IF k \in DOMAIN b.f THEN b.f[k] ELSE a.f[k]])

login(w, u, t) == set(w, [user |-> u, token |-> t, isAuthenticated |-> TRUE])

\* Mutant: the credential is left in place.
logout_KeepsToken(w) == set(w, [user |-> JNull, isAuthenticated |-> FALSE])

logout(w) == set(w, [user |-> JNull, token |-> JNull, isAuthenticated |-> FALSE])

\* Mutant: the partial replaces the user instead of being merged into it.
updateUser_Replaces(w, userData) ==
    IF Truthy(w.st.user) THEN set(w, [user |-> userData]) ELSE w

updateUser(w, userData) ==
    IF Truthy(w.st.user)
    THEN set(w, [user |-> Spread(w.st.user, userData)])
    ELSE w

\* Store creation in a fresh process: the initializer's state, then hydrate
\* from the item (synchronous for localStorage); nothing is written.
rehydrate(w) == [st |-> hydrate(w.item), item |-> w.item]

(***************************************************************************)
(* The router: the route table of AppRouter and the two guard components.  *)
(***************************************************************************)
MaxUnknown == 1

\* The count of redirects in one render pass stops here.
MaxHops == 3

\* The index route's <Navigate to="/dashboard" replace />.
\* Mutant: the index route navigates to its own path.
IndexTarget_Root == "/"

IndexTarget == "/dashboard"

DeclaredPaths == {"/login", "/", "/dashboard", "/users", "/settings"}

UnknownPaths == {"/unknown" \o ToString(i) : i \in 1..MaxUnknown}

Paths == DeclaredPaths \cup UnknownPaths

Screens == {"Login", "Dashboard", "Users", "Settings", "NotFound"}

\* <Routes>: the route a path matches; "*" matches what no other route does.
matchRoute(path) ==
    CASE path = "/login"     -> "login"
      [] path = "/"          -> "index"
      [] path = "/dashboard" -> "dashboard"
      [] path = "/users"     -> "users"
      [] path = "/settings"  -> "settings"
      [] OTHER               -> "*"

\* Mutant: the "*" route wrapped in PublicRoute as well.
Visibility_NotFoundPublic(route) ==
    CASE route \in {"login", "*"} -> "PUBLIC"
      [] OTHER -> "PROTECTED"

\* The guard component a route's element is wrapped in.
Visibility(route) ==
    CASE route = "login" -> "PUBLIC"
      [] route \in {"index", "dashboard", "users", "settings"} -> "PROTECTED"
      [] OTHER -> "NONE"

\* The lazy component a route's element renders; the index route renders
\* <Navigate to="/dashboard" replace /> instead.
ScreenOf(route) ==
    CASE route = "login"     -> "Login"
      [] route = "dashboard" -> "Dashboard"
      [] route = "users"     -> "Users"
      [] route = "settings"  -> "Settings"
      [] route = "index"     -> "none"
      [] OTHER               -> "NotFound"

ProtectedScreens == {"Dashboard", "Users", "Settings"}

Allow == [kind |-> "ALLOW", to |-> ""]

\* Mutant: the children are rendered whatever the session is.
ProtectedRoute_AlwaysRenders(auth) == Allow

\* ProtectedRoute: <Navigate to="/login" replace /> unless authenticated.
ProtectedRoute(auth) ==
    IF ~auth THEN [kind |-> "REDIRECT_TO_LOGIN", to |-> "/login"] ELSE Allow

\* Mutant: an authenticated visitor is sent to the root path.
PublicRoute_ToRoot(auth) ==
    IF auth THEN [kind |-> "REDIRECT_TO_HOME", to |-> "/"] ELSE Allow

\* PublicRoute: <Navigate to="/dashboard" replace /> if authenticated.
PublicRoute(auth) ==
    IF auth THEN [kind |-> "REDIRECT_TO_HOME", to |-> "/dashboard"] ELSE Allow

\* What rendering the matched route's outermost element decides.
guard(route, auth) ==
    CASE Visibility(route) = "PROTECTED" -> ProtectedRoute(auth)
      [] Visibility(route) = "PUBLIC"    -> PublicRoute(auth)
      [] OTHER                           -> Allow

Op(name, u, t) == [op |-> name, user |-> u, token |-> t, prev |-> ""]

Becomes(w) ==
    /\ user' = w.st.user
    /\ token' = w.st.token
    /\ isAuthenticated' = w.st.isAuthenticated
    /\ storage' = w.item

\* The query cache of a fresh process: no entry for the key.  `crossed` and
\* `tainted` are history: a logout happened while the fetch in flight was
\* running, and the data held came from such a fetch.
NoQuery == [status |-> "idle", data |-> "none", crossed |-> FALSE, tainted |-> FALSE]

\* useUsers() in a component that mounts: the observer subscribes and the
\* query fetches unless it holds fresh data or is fetching already.
observe(q) ==
    IF q.status = "idle" /\ q.data # "fresh"
    THEN [q EXCEPT !.status = "fetching", !.crossed = FALSE]
    ELSE q

(***************************************************************************)
(* The ErrorBoundary around the whole application.                         *)
(***************************************************************************)
\* public state: State = { hasError: false }
BoundaryInitial == [hasError |-> FALSE, error |-> "undefined"]

getDerivedStateFromError(error) == [hasError |-> TRUE, error |-> error]

\* Mutant: the flag is lowered and the error is kept.
handleReset_KeepsError(state) == [state EXCEPT !.hasError = FALSE]

\* handleReset: setState({ hasError: false, error: undefined })
handleReset(state) == [hasError |-> FALSE, error |-> "undefined"]

\* render(): the fallback if hasError, else the children (not rendered yet).
render(state) == IF state.hasError THEN "ErrorFallback" ELSE "none"

\* The state of the router in a fresh process opened at path p.
RouterBoot(p) ==
    /\ location = p
    /\ requested = p
    /\ pc = "guard"
    /\ decision = "none"
    /\ lazy = [s \in Screens |-> "uninitialized"]
    /\ loads = [s \in Screens |-> 0]
    /\ mounted = "none"
    /\ boundary = BoundaryInitial
    /\ hops = 0
    /\ query = NoQuery

StoreBoot(items) ==
    /\ storage \in items
    /\ user = hydrate(storage).user
    /\ token = hydrate(storage).token
    /\ isAuthenticated = hydrate(storage).isAuthenticated
    /\ lastOp = [op |-> "rehydrate", user |-> JNull, token |-> JNull, prev |-> "boot"]

\* No request has been run.  `failures` is history: the status of every
\* failed attempt of the request, in order (0 for an error without a response).
NoRequest == [kind |-> "none", phase |-> "idle", failureCount |-> 0,
              failures |-> <<>>, retries |-> 0]

\* An empty JavaScript object, and an object with one more property set.
EmptyObject == <<>>

WithProperty(obj, field, value) ==
    [k \in DOMAIN obj \cup {field} |-> IF k = field THEN value ELSE obj[k]]

\* The machine in its initial state.  `submitted` and `runs` are history:
\* the data of the SUBMIT last taken, and the services that have settled
\* since, each with the data it was invoked with and what it produced.
FormInitial ==
    [state |-> "idle",
     context |-> [data |-> EmptyObject, errors |-> EmptyObject, submitCount |-> 0],
     submitted |-> EmptyObject,
     runs |-> <<>>]

ServicesBoot == request = NoRequest /\ form = FormInitial

(***************************************************************************)
(* Store operations.  zustand notifies its subscribers synchronously; the  *)
(* guards select state.isAuthenticated, so a mounted guard renders again   *)
(* when that value changes.  While the Suspense boundary shows its         *)
(* fallback the guard under it may or may not have been committed (and so  *)
(* subscribed): both outcomes are allowed.                                 *)
(***************************************************************************)
StoreLogin(u, t) ==
    /\ Becomes(login(World, u, t))
    /\ lastOp' = Op("login", u, t)

StoreLogout ==
    /\ Becomes(logout(World))
    /\ lastOp' = Op("logout", JNull, JNull)

StoreUpdateUser(p) ==
    /\ Becomes(updateUser(World, p))
    /\ lastOp' = Op("updateUser", p, JNull)

\* A new process creates the store over the storage the last one left.
StoreRestart ==
    /\ Becomes(rehydrate(World))
    /\ lastOp' = [op |-> "rehydrate", user |-> lastOp.user, token |-> lastOp.token,
                  prev |-> lastOp.op]

\* Mutant: the guards read the flag once and are not subscribed to it.
Notify_NotSubscribed == UNCHANGED routerVars

Notify ==
    IF isAuthenticated' # isAuthenticated /\ pc \in {"settled", "suspended"}
    THEN /\ pc' \in (IF pc = "settled" THEN {"guard"} ELSE {"guard", "suspended"})
         /\ decision' = IF pc' = "guard" THEN "none" ELSE decision
         /\ UNCHANGED <<location, requested, lazy, loads, mounted, boundary>>
    ELSE UNCHANGED routerVars

\* No event handler or promise callback runs in the middle of a render;
\* the application's own handlers need the application to be on screen.
Idle == pc \in {"suspended", "settled"}

\* A promise callback or a timer can run: no render is in progress.
Quiet == pc \in {"suspended", "settled", "caught"}

Login(u, t) == Idle /\ StoreLogin(u, t) /\ Notify /\ UNCHANGED <<hops, query>>

\* logout() touches the store only: the query cache and a fetch in flight
\* are left as they are.
Logout ==
    /\ Idle
    /\ StoreLogout
    /\ Notify
    /\ query' = [query EXCEPT !.crossed = (@ \/ query.status = "fetching")]
    /\ UNCHANGED hops

UpdateUser(p) == Idle /\ StoreUpdateUser(p) /\ Notify /\ UNCHANGED <<hops, query>>

\* The page is reloaded: a new process creates the store and the router at
\* the same URL; no lazy screen is loaded in it yet.
PageLoad ==
    /\ StoreRestart
    /\ requested' = location
    /\ pc' = "guard"
    /\ decision' = "none"
    /\ lazy' = [s \in Screens |-> "uninitialized"]
    /\ loads' = [s \in Screens |-> 0]
    /\ mounted' = "none"
    /\ boundary' = BoundaryInitial
    /\ hops' = 0
    /\ query' = NoQuery
    /\ UNCHANGED location

Restart == Idle /\ PageLoad

\* The boundary catches an error thrown by a render under it: its state is
\* derived from the error and it renders the fallback in place of its children.
Catch(error) ==
    /\ boundary' = getDerivedStateFromError(error)
    /\ pc' = "caught"
    /\ mounted' = render(boundary')
    /\ hops' = 0

\* "Try Again": the state is reset and the children are mounted anew, the
\* router reading the URL as it stands.
HandleReset ==
    /\ pc = "caught"
    /\ boundary' = handleReset(boundary)
    /\ mounted' = render(boundary')
    /\ pc' = "guard"
    /\ decision' = "none"
    /\ lastOp' = Op("handleReset", JNull, JNull)
    /\ UNCHANGED <<location, requested, lazy, loads, hops, query>>
    /\ UNCHANGED storeVars

\* "Refresh Page": window.location.reload()
HandleReload == pc = "caught" /\ PageLoad

(***************************************************************************)
(* Router steps.                                                           *)
(***************************************************************************)
\* A navigation intent: a link is clicked or a URL is entered.
NavigateTo(p) ==
    /\ Idle
    /\ location' = p
    /\ requested' = p
    /\ pc' = "guard"
    /\ decision' = "none"
    /\ lastOp' = Op("navigate", JNull, JNull)
    /\ UNCHANGED <<lazy, loads, mounted, boundary, hops, query>>
    /\ UNCHANGED storeVars

\* <Navigate replace /> rendered: one more redirect in this render pass.
Redirected == hops' = IF hops < MaxHops THEN hops + 1 ELSE hops

\* Rendering reaches the matched route's guard component.
RenderGuard ==
    /\ pc = "guard"
    /\ LET d == guard(matchRoute(location), isAuthenticated) IN
        /\ decision' = d.kind
        /\ IF d.kind = "ALLOW"
           THEN /\ pc' = "screen"
                /\ UNCHANGED <<location, mounted, hops>>
           ELSE /\ pc' = "guard"
                /\ location' = d.to
                /\ mounted' = "none"
                /\ Redirected
    /\ lastOp' = Op("guard", JNull, JNull)
    /\ UNCHANGED <<requested, lazy, loads, boundary, query>>
    /\ UNCHANGED storeVars

\* Mutant: the loader is called by every render that finds no module yet.
loaderInvoked_WhileNotResolved(status) == status # "resolved"

\* React.lazy calls the loader `() => import(...)` only from a render that
\* finds the screen's payload uninitialized.
loaderInvoked(status) == status = "uninitialized"

\* Rendering reaches the guard's children: the index route navigates on,
\* a lazy screen is mounted if loaded and otherwise suspends, invoking its
\* loader if that has not been done in this process.
RenderScreen ==
    /\ pc = "screen"
    /\ LET s == ScreenOf(matchRoute(location)) IN
        IF s = "none"
        THEN /\ location' = IndexTarget
             /\ pc' = "guard"
             /\ decision' = "none"
             /\ mounted' = "none"
             /\ Redirected
             /\ UNCHANGED <<lazy, loads, boundary, query>>
        ELSE IF lazy[s] = "resolved"
        THEN /\ mounted' = s
             /\ pc' = "settled"
             /\ hops' = 0
             /\ query' = IF s = "Dashboard" /\ mounted # "Dashboard"
                         THEN observe(query) ELSE query
             /\ UNCHANGED <<location, decision, lazy, loads, boundary>>
        ELSE IF lazy[s] = "rejected"
        THEN /\ Catch("ChunkLoadError")
             /\ UNCHANGED <<location, decision, lazy, loads, query>>
        ELSE /\ mounted' = "fallback"
             /\ pc' = "suspended"
             /\ hops' = 0
             /\ UNCHANGED <<boundary, query>>
             /\ lazy' = [lazy EXCEPT ![s] = "pending"]
             /\ loads' = [loads EXCEPT ![s] = IF loaderInvoked(lazy[s]) THEN @ + 1 ELSE @]
             /\ UNCHANGED <<location, decision>>
    /\ lastOp' = Op("screen", JNull, JNull)
    /\ UNCHANGED requested
    /\ UNCHANGED storeVars

\* The dynamic import of screen s settles with the given outcome; a
\* boundary suspended on it renders again.
LoaderSettles(s, outcome) ==
    /\ Quiet
    /\ lazy[s] = "pending"
    /\ lazy' = [lazy EXCEPT ![s] = outcome]
    /\ IF pc = "suspended" /\ ScreenOf(matchRoute(location)) = s
       THEN pc' = "guard" /\ decision' = "none"
       ELSE UNCHANGED <<pc, decision>>
    /\ UNCHANGED <<location, requested, loads, mounted, boundary, hops, query>>
    /\ UNCHANGED storeVars

LoaderResolve(s) == LoaderSettles(s, "resolved") /\ lastOp' = Op("loaded", JNull, JNull)

\* The dynamic import fails (the chunk cannot be fetched or evaluated).
LoaderReject(s) == LoaderSettles(s, "rejected") /\ lastOp' = Op("loadFailed", JNull, JNull)

\* The render of the loaded screen throws.
RenderThrows ==
    /\ pc = "screen"
    /\ LET s == ScreenOf(matchRoute(location)) IN
        /\ s # "none"
        /\ lazy[s] = "resolved"
    /\ Catch("RenderError")
    /\ lastOp' = Op("renderThrew", JNull, JNull)
    /\ UNCHANGED <<location, requested, decision, lazy, loads, query>>
    /\ UNCHANGED storeVars

(***************************************************************************)
(* The query cache entry the Dashboard reads through useUsers.             *)
(***************************************************************************)
\* userService.getAll resolves: the result is written to the cache entry,
\* whether or not a component still observes it.
FetchResolve ==
    /\ Quiet
    /\ query.status = "fetching"
    /\ query' = [status |-> "idle", data |-> "fresh", crossed |-> FALSE,
                 tainted |-> query.crossed]
    /\ lastOp' = Op("fetched", JNull, JNull)
    /\ UNCHANGED <<routerVars, hops>>
    /\ UNCHANGED storeVars

\* staleTime (5 minutes) passes since the data was written.
StaleTimeout ==
    /\ Quiet
    /\ query.data = "fresh"
    /\ query' = [query EXCEPT !.data = "stale"]
    /\ lastOp' = Op("stale", JNull, JNull)
    /\ UNCHANGED <<routerVars, hops>>
    /\ UNCHANGED storeVars

\* cacheTime (10 minutes) passes with no observer: the entry is removed.
GcTimeout ==
    /\ Quiet
    /\ mounted # "Dashboard"
    /\ query.status = "idle"
    /\ query.data # "none"
    /\ query' = NoQuery
    /\ lastOp' = Op("gc", JNull, JNull)
    /\ UNCHANGED <<routerVars, hops>>
    /\ UNCHANGED storeVars

(***************************************************************************)
(* Spec: the session store on its own, over all the argument values.       *)
(***************************************************************************)
Init ==
    /\ StoreBoot(BootItems)
    /\ RouterBoot("/")
    /\ ServicesBoot

Next ==
    \/ \E u \in LoginUsers, t \in LoginTokens : StoreLogin(u, t) /\ UNCHANGED appVars
    \/ StoreLogout /\ UNCHANGED appVars
    \/ \E p \in Partials : StoreUpdateUser(p) /\ UNCHANGED appVars
    \/ StoreRestart /\ UNCHANGED appVars

Spec == Init /\ [][Next]_vars

(***************************************************************************)
(* AppSpec: the application, the store driven with one user and one token. *)
(***************************************************************************)
AppBootItems == {Absent, SampleItem, Item(SubSeq(SampleItem.text, 1, Len(SampleItem.text) - 1))}

AppPartials == {JObj([email |-> JStr("b@" \o SampleUser.f["id"].s)])}

AppInit ==
    /\ StoreBoot(AppBootItems)
    /\ \E p \in Paths : RouterBoot(p)
    /\ ServicesBoot

AppNext ==
    \/ Login(SampleUser, SampleToken) /\ UNCHANGED serviceVars
    \/ Logout /\ UNCHANGED serviceVars
    \/ \E p \in AppPartials : UpdateUser(p) /\ UNCHANGED serviceVars
    \/ Restart /\ UNCHANGED serviceVars
    \/ \E p \in Paths : NavigateTo(p) /\ UNCHANGED serviceVars
    \/ RenderGuard /\ UNCHANGED serviceVars
    \/ RenderScreen /\ UNCHANGED serviceVars
    \/ \E s \in Screens : LoaderResolve(s) /\ UNCHANGED serviceVars
    \/ \E s \in Screens : LoaderReject(s) /\ UNCHANGED serviceVars
    \/ RenderThrows /\ UNCHANGED serviceVars
    \/ HandleReset /\ UNCHANGED serviceVars
    \/ HandleReload /\ UNCHANGED serviceVars
    \/ FetchResolve /\ UNCHANGED serviceVars
    \/ StaleTimeout /\ UNCHANGED serviceVars
    \/ GcTimeout /\ UNCHANGED serviceVars

AppSpec == AppInit /\ [][AppNext]_vars

(***************************************************************************)
(* RetrySpec: one request at a time run by the query client, a query or a  *)
(* mutation, each attempt failing with any status or succeeding.           *)
(***************************************************************************)
RetryLimit == 3

\* The statuses an attempt fails with; 0 is an error that carries no response.
Statuses == {0, 399, 400, 499, 500}

Is4xx(status) == status >= 400 /\ status < 500

\* Mutant: the status of the failure is not looked at.
retry_AnyStatus(failureCount, status) == failureCount < RetryLimit

\* defaultOptions.queries.retry
retry(failureCount, status) ==
    IF Is4xx(status) THEN FALSE ELSE failureCount < RetryLimit

\* The retry option that applies: queries.retry, or mutations.retry (false).
shouldRetry(kind, failureCount, status) ==
    IF kind = "mutation" THEN FALSE ELSE retry(failureCount, status)

\* A query fetches or a mutation is fired: its first attempt starts.
Execute(kind) ==
    /\ request.phase \in {"idle", "success", "error"}
    /\ request' = [kind |-> kind, phase |-> "running", failureCount |-> 0,
                   failures |-> <<>>, retries |-> 0]
    /\ lastOp' = Op("execute", JNull, JNull)
    /\ UNCHANGED <<pageVars, form>>

\* The attempt fails: the retry option is asked with the count of failures
\* so far; the request waits for its retry or reports the error.
AttemptFails(status) ==
    /\ request.phase = "running"
    /\ IF shouldRetry(request.kind, request.failureCount, status)
       THEN request' = [request EXCEPT !.phase = "waiting",
                                       !.failureCount = @ + 1,
                                       !.failures = Append(@, status)]
       ELSE request' = [request EXCEPT !.phase = "error",
                                       !.failures = Append(@, status)]
    /\ lastOp' = Op("failed", JNull, JNull)
    /\ UNCHANGED <<pageVars, form>>

\* The retry delay passes: the next attempt starts.
RetryFires ==
    /\ request.phase = "waiting"
    /\ request' = [request EXCEPT !.phase = "running", !.retries = @ + 1]
    /\ lastOp' = Op("retry", JNull, JNull)
    /\ UNCHANGED <<pageVars, form>>

AttemptSucceeds ==
    /\ request.phase = "running"
    /\ request' = [request EXCEPT !.phase = "success"]
    /\ lastOp' = Op("succeeded", JNull, JNull)
    /\ UNCHANGED <<pageVars, form>>

RetryInit ==
    /\ StoreBoot({Absent})
    /\ RouterBoot("/")
    /\ ServicesBoot

RetryNext ==
    \/ \E kind \in {"query", "mutation"} : Execute(kind)
    \/ \E status \in Statuses : AttemptFails(status)
    \/ RetryFires
    \/ AttemptSucceeds

RetrySpec == RetryInit /\ [][RetryNext]_vars

(***************************************************************************)
(* FormSpec: the form machine driven by useFormMachine, with any events    *)
(* sent to it and any outcomes of validateFn and submitFn.                 *)
(***************************************************************************)
MaxSubmit == 2

FormValues == {"", "a"}

FormData == {EmptyObject} \cup {WithProperty(EmptyObject, "email", v) : v \in FormValues}

Event(type, data, field, value) ==
    [type |-> type, data |-> data, field |-> field, value |-> value]

DoneEvent(service) == Event("done.invoke." \o service, EmptyObject, "", "")

ErrorEvent(service, data) == Event("error.platform." \o service, data, "", "")

\* What validateFn or submitFn produced: a value it resolved with or a
\* reason it rejected with.
Outcome(rejected, value) == [rejected |-> rejected, value |-> value]

ValidateOutcomes ==
    {Outcome(FALSE, EmptyObject),
     Outcome(FALSE, WithProperty(EmptyObject, "email", "required")),
     Outcome(TRUE, WithProperty(EmptyObject, "message", "validator failed"))}

SubmitOutcomes ==
    {Outcome(FALSE, EmptyObject),
     Outcome(TRUE, WithProperty(EmptyObject, "message", "server error"))}

\* Mutant: the errors validateFn found are not thrown.
validateForm_IgnoresErrors(outcome) ==
    IF outcome.rejected
    THEN ErrorEvent("validateForm", outcome.value)
    ELSE DoneEvent("validateForm")

\* services.validateForm: throws the errors if there is any, else returns true.
validateForm(outcome) ==
    IF outcome.rejected
    THEN ErrorEvent("validateForm", outcome.value)
    ELSE IF DOMAIN outcome.value # {}
    THEN ErrorEvent("validateForm", outcome.value)
    ELSE DoneEvent("validateForm")

\* services.submitForm: await submitFn(context.data)
submitForm(outcome) ==
    IF outcome.rejected
    THEN ErrorEvent("submitForm", outcome.value)
    ELSE DoneEvent("submitForm")

\* formMachine: the state and context after an event; an event the state
\* has no transition for is dropped.
transition(state, context, ev) ==
    CASE state = "idle" /\ ev.type = "SUBMIT" ->
            [state |-> "validating",
             context |-> [context EXCEPT !.data = ev.data, !.submitCount = @ + 1]]
      [] state = "idle" /\ ev.type = "VALIDATE" ->
            [state |-> "idle",
             context |-> [context EXCEPT !.data = WithProperty(@, ev.field, ev.value)]]
      [] state = "validating" /\ ev.type = "done.invoke.validateForm" ->
            [state |-> "submitting", context |-> [context EXCEPT !.errors = EmptyObject]]
      [] state = "validating" /\ ev.type = "error.platform.validateForm" ->
            [state |-> "idle", context |-> [context EXCEPT !.errors = ev.data]]
      [] state = "submitting" /\ ev.type = "done.invoke.submitForm" ->
            [state |-> "success", context |-> context]
      [] state = "submitting" /\ ev.type = "error.platform.submitForm" ->
            [state |-> "idle", context |-> [context EXCEPT !.errors = ev.data]]
      [] state = "success" /\ ev.type = "RESET" ->
            [state |-> "idle",
             context |-> [data |-> EmptyObject, errors |-> EmptyObject, submitCount |-> 0]]
      [] OTHER -> [state |-> state, context |-> context]

\* send(event) from the component.
Send(ev) ==
    /\ LET next == transition(form.state, form.context, ev)
           taken == form.state = "idle" /\ ev.type = "SUBMIT"
       IN form' = [state |-> next.state, context |-> next.context,
                   submitted |-> IF taken THEN ev.data ELSE form.submitted,
                   runs |-> IF taken THEN <<>> ELSE form.runs]
    /\ lastOp' = Op(ev.type, JNull, JNull)
    /\ UNCHANGED <<pageVars, request>>

SendSubmit(data) ==
    /\ form.context.submitCount < MaxSubmit
    /\ Send(Event("SUBMIT", data, "", ""))

SendValidate(field, value) == Send(Event("VALIDATE", EmptyObject, field, value))

SendReset == Send(Event("RESET", EmptyObject, "", ""))

\* The event types FormEvent declares and the machine has no transition for.
SendUnhandled(type) == Send(Event(type, EmptyObject, "", ""))

\* The promise of the invoked service settles; the service was invoked with
\* the context of the state's entry, which no event has changed since.
ServiceSettles(service, ev, outcome) ==
    /\ LET next == transition(form.state, form.context, ev)
       IN form' = [form EXCEPT
                     !.state = next.state,
                     !.context = next.context,
                     !.runs = Append(@, [service |-> service,
                                         data |-> form.context.data,
                                         outcome |-> outcome])]
    /\ lastOp' = Op(service, JNull, JNull)
    /\ UNCHANGED <<pageVars, request>>

ValidateSettles(outcome) ==
    /\ form.state = "validating"
    /\ ServiceSettles("validateForm", validateForm(outcome), outcome)

SubmitSettles(outcome) ==
    /\ form.state = "submitting"
    /\ ServiceSettles("submitForm", submitForm(outcome), outcome)

FormInit ==
    /\ StoreBoot({Absent})
    /\ RouterBoot("/")
    /\ ServicesBoot

FormNext ==
    \/ \E data \in FormData : SendSubmit(data)
    \/ \E value \in FormValues : SendValidate("email", value)
    \/ SendReset
    \/ \E type \in {"SUCCESS", "ERROR"} : SendUnhandled(type)
    \/ \E outcome \in ValidateOutcomes : ValidateSettles(outcome)
    \/ \E outcome \in SubmitOutcomes : SubmitSettles(outcome)

FormSpec == FormInit /\ [][FormNext]_vars

(***************************************************************************)
(* Properties.                                                             *)
(***************************************************************************)
Present(v) == v # JNull

\* A missing (null) or empty argument of login.
MissingOrEmpty(v) == v = JNull \/ v = JStr("") \/ v = JObj(<<>>)

\* The storage item parses to a record whose state holds exactly the keys
\* token and user, with the values the store holds in memory.
RecordHolds ==
    /\ storage.present
    /\ LET p == ParseJSON(storage.text) IN
        /\ p.ok
        /\ HasKey(p.v, "state")
        /\ p.v.f["state"].tag = "obj"
        /\ DOMAIN p.v.f["state"].f = {"token", "user"}
        /\ p.v.f["state"].f["token"] = token
        /\ p.v.f["state"].f["user"] = user

\* C1: in every reachable state of the store, isAuthenticated is true exactly
\* when both user and token are present.
C1_AuthIffUserAndToken == isAuthenticated = (Present(user) /\ Present(token))

\* C2: login(u, t) followed by a restart that rehydrates the store yields
\* user = u, token = t and isAuthenticated = true.
C2_LoginRestartRoundTrip ==
    (/\ lastOp.op = "rehydrate"
     /\ lastOp.prev = "login"
     /\ lastOp.user \in Users
     /\ lastOp.token \in TokenStrings)
    => (user = lastOp.user /\ token = lastOp.token /\ isAuthenticated)

\* C3: at every declared path the guard decides by the table: protected and
\* not authenticated redirects to /login, public and authenticated redirects
\* to /dashboard, the other two cases are allowed and leave the location;
\* the targets are these two fixed paths whatever was requested.
C3_GuardDecisionTable ==
    [][(lastOp'.op = "guard" /\ pc = "guard" /\ location \in DeclaredPaths) =>
          LET protected == location \in {"/", "/dashboard", "/users", "/settings"}
              public == location = "/login"
          IN /\ (protected /\ ~isAuthenticated)
                   => (decision' = "REDIRECT_TO_LOGIN" /\ location' = "/login")
             /\ (public /\ isAuthenticated)
                   => (decision' = "REDIRECT_TO_HOME" /\ location' = "/dashboard")
             /\ ((protected /\ isAuthenticated) \/ (public /\ ~isAuthenticated))
                   => (decision' = "ALLOW" /\ location' = location)
             /\ protected # public]_vars

C3_Witness ==
    /\ lastOp.op = "guard"
    /\ requested = "/login"
    /\ isAuthenticated
    /\ decision = "REDIRECT_TO_HOME"
    /\ location = "/dashboard"

\* C4: a lazy loader is invoked only by the render step that follows an
\* ALLOW decision of the guard for the current location, and only for that
\* location's screen; a guard step that redirects invokes no loader; and no
\* step taken while the session is not authenticated invokes the loader of
\* a protected screen.
C4_GuardBeforeLoader ==
    [][/\ (lastOp'.op # "rehydrate" /\ loads' # loads) =>
            /\ pc = "screen"
            /\ decision = "ALLOW"
            /\ location' = location
            /\ \A s \in Screens :
                  loads'[s] = IF s = ScreenOf(matchRoute(location))
                              THEN loads[s] + 1 ELSE loads[s]
       /\ (lastOp'.op = "guard" /\ decision' \in {"REDIRECT_TO_LOGIN", "REDIRECT_TO_HOME"})
            => (loads' = loads /\ lazy' = lazy)
       /\ (~isAuthenticated /\ ~isAuthenticated')
            => \A s \in ProtectedScreens : loads'[s] <= loads[s]]_vars

C4_Witness ==
    /\ ~storage.present
    /\ lastOp.op = "guard"
    /\ requested = "/users"
    /\ decision = "REDIRECT_TO_LOGIN"
    /\ location = "/login"
    /\ \A s \in ProtectedScreens : loads[s] = 0

\* C5: at a path that is not declared, rendering never changes the location
\* (no redirect), the guard step allows, and the screen shown once rendering
\* has settled is NotFound, whether the session is authenticated or not
\* (if the NotFound module failed to load, the error fallback stands in).
C5_UnknownPathNotFound ==
    /\ []((location \notin DeclaredPaths /\ pc = "settled") => mounted = "NotFound")
    /\ [][(lastOp'.op \in {"guard", "screen"} /\ location \notin DeclaredPaths) =>
             /\ location' = location
             /\ decision' = "ALLOW"
             /\ lastOp'.op = "screen" =>
                   \/ mounted' \in {"NotFound", "fallback"}
                   \/ lazy["NotFound"] = "rejected" /\ mounted' = "ErrorFallback"]_vars

C5_Witness ==
    /\ location \in UnknownPaths
    /\ isAuthenticated
    /\ pc = "settled"
    /\ mounted = "NotFound"

\* C6: login called with a missing or empty user or token leaves the session
\* (and its record) unchanged.
C6_LoginRejectsMissing ==
    [][(lastOp'.op = "login"
        /\ (MissingOrEmpty(lastOp'.user) \/ MissingOrEmpty(lastOp'.token)))
       => UNCHANGED storeVars]_vars

C8_RecordAfterEveryOperation ==
    lastOp.op \in {"login", "logout", "updateUser"}
    => (RecordHolds \/ (~storage.present /\ user = JNull /\ token = JNull))

\* C8 amended: after every login, every logout and every updateUser made
\* while a user is set, the record holds exactly the token and user held in
\* memory and no isAuthenticated; updateUser with no user set writes nothing.
C8_RecordAfterEverySet ==
    (lastOp.op \in {"login", "logout"} \/ (lastOp.op = "updateUser" /\ Present(user)))
    => RecordHolds

C8_Witness ==
    /\ lastOp.op = "updateUser"
    /\ Present(user)
    /\ Present(token)
    /\ DOMAIN lastOp.user.f = {"email"}
    /\ RecordHolds

\* C9: the result of a fetch that was in flight when logout happened is
\* never written to the query cache.
C9_LateFetchDiscarded == ~query.tainted

\* C10: updateUser(partial) changes nothing when no user is set; otherwise
\* the new user has the old user's fields with those of partial replaced,
\* and token and isAuthenticated keep their values.
C10_UpdateUserFrame ==
    [][lastOp'.op = "updateUser" =>
          LET partial == lastOp'.user IN
          /\ token' = token
          /\ isAuthenticated' = isAuthenticated
          /\ IF user = JNull
             THEN user' = user /\ storage' = storage
             ELSE /\ user'.tag = "obj"
                  /\ DOMAIN user'.f = DOMAIN user.f \cup DOMAIN partial.f
                  /\ \A k \in DOMAIN user'.f :
                        user'.f[k] = IF k \in DOMAIN partial.f
                                     THEN partial.f[k] ELSE user.f[k]]_vars

C10_Witness ==
    /\ lastOp.op = "updateUser"
    /\ DOMAIN lastOp.user.f = {"email"}
    /\ Present(user)
    /\ user.f["email"] = lastOp.user.f["email"]
    /\ "id" \in DOMAIN user.f
    /\ user \notin Users

\* C13: after any logout the session is user null, token null, not
\* authenticated, the record holds exactly that, and calling logout again
\* would change neither the session nor the record.
C13_LogoutIdempotent ==
    lastOp.op = "logout" =>
        /\ user = JNull
        /\ token = JNull
        /\ ~isAuthenticated
        /\ RecordHolds
        /\ logout(World) = World

C13_Witness ==
    /\ lastOp.op = "logout"
    /\ user = JNull
    /\ storage = setItem(InitialState)

\* C11: a failure with a status from 400 to 499 is the request's last
\* attempt and is reported; a query is retried at most 3 times and its
\* fourth failure is reported; a mutation is never retried.
C11_RetryPolicy ==
    /\ request.retries <= RetryLimit
    /\ request.kind = "mutation" => request.retries = 0
    /\ \A i \in 1..Len(request.failures) :
          Is4xx(request.failures[i]) =>
              /\ i = Len(request.failures)
              /\ request.phase = "error"
              /\ request.retries = i - 1
    /\ Len(request.failures) = RetryLimit + 1 => request.phase = "error"
    /\ (request.kind = "mutation" /\ request.failures # <<>>) => request.phase = "error"

C11_Witness ==
    /\ request.kind = "query"
    /\ request.phase = "error"
    /\ request.retries = RetryLimit
    /\ Len(request.failures) = RetryLimit + 1

\* C12: within one process, whatever navigations, logins and logouts have
\* happened, no screen's loader has been invoked more than once.
C12_LoaderAtMostOnce == \A s \in Screens : loads[s] <= 1

\* A screen rendered from its loaded module, after the Login screen was
\* loaded in the same process as well.
C12_Witness ==
    /\ lastOp.op = "screen"
    /\ mounted = "Users"
    /\ lazy["Users"] = "resolved"
    /\ loads["Users"] = 1
    /\ loads["Login"] = 1

\* C14: whenever rendering has settled with a protected screen mounted the
\* session is authenticated; a logout with a protected screen mounted makes
\* the guard render again, and that render moves the location to /login
\* and takes the screen down.
C14_ProtectedOnlyWhileAuthenticated ==
    /\ []((pc = "settled" /\ mounted \in ProtectedScreens) => isAuthenticated)
    /\ [][(lastOp'.op = "logout" /\ pc = "settled" /\ mounted \in ProtectedScreens)
            => (pc' = "guard" /\ ~isAuthenticated' /\ location' = location)]_vars
    /\ [][(lastOp.op = "logout" /\ pc = "guard" /\ mounted \in ProtectedScreens)
            => (location' = "/login" /\ mounted' = "none"
                /\ decision' = "REDIRECT_TO_LOGIN")]_vars

\* A logout has found the Dashboard mounted: its guard is about to render.
C14_Witness ==
    /\ lastOp.op = "logout"
    /\ pc = "guard"
    /\ mounted = "Dashboard"
    /\ location = "/dashboard"
    /\ ~isAuthenticated

\* C15: a render that meets a rejected loader, or that throws, ends with the
\* boundary holding hasError = true and the fallback shown in place of the
\* children; within a page load hasError goes back to false by handleReset
\* only; handleReset leaves hasError = false and no error, the children
\* mounted anew, and neither moves the location nor starts the failed
\* load again.
C15_BoundaryCatchesAndResets ==
    /\ [](boundary.hasError <=> mounted = "ErrorFallback")
    /\ [](boundary.hasError <=> pc = "caught")
    /\ [][(pc = "screen" /\ ScreenOf(matchRoute(location)) # "none"
            /\ lazy[ScreenOf(matchRoute(location))] = "rejected")
            => (boundary'.hasError /\ boundary'.error = "ChunkLoadError")]_vars
    /\ [][lastOp'.op = "renderThrew"
            => (boundary'.hasError /\ boundary'.error = "RenderError")]_vars
    /\ [][(boundary.hasError /\ ~boundary'.hasError)
            => lastOp'.op \in {"handleReset", "rehydrate"}]_vars
    /\ [][lastOp'.op = "handleReset"
            => /\ boundary' = [hasError |-> FALSE, error |-> "undefined"]
               /\ mounted' = "none"
               /\ pc' = "guard"
               /\ decision' = "none"
               /\ UNCHANGED <<location, requested, lazy, loads>>]_vars

\* The children have been mounted anew by handleReset after a failed load.
C15_Witness ==
    /\ lastOp.op = "handleReset"
    /\ ~boundary.hasError
    /\ lazy["Users"] = "rejected"
    /\ location = "/users"
    /\ pc = "guard"

\* C16: under whatever session a render pass runs, it makes at most one
\* redirect (so /login, / and /dashboard send it round no cycle), it always
\* has a next step until it comes to rest, and where it has settled the
\* guard of the location allows the session and the location's screen is
\* the one mounted.
C16_NavigationSettles ==
    /\ hops <= 1
    /\ pc = "guard" => ENABLED RenderGuard
    /\ pc = "screen" => ENABLED RenderScreen
    /\ pc = "settled" =>
          /\ guard(matchRoute(location), isAuthenticated) = Allow
          /\ mounted = ScreenOf(matchRoute(location))
          /\ mounted \in ProtectedScreens => isAuthenticated
          /\ mounted = "Login" => ~isAuthenticated

\* The root path requested under an authenticated session has settled on
\* the Dashboard.
C16_Witness ==
    /\ requested = "/"
    /\ location = "/dashboard"
    /\ isAuthenticated
    /\ pc = "settled"
    /\ mounted = "Dashboard"

\* validateFn resolved with no errors; submitFn resolved.
Succeeded(run) ==
    /\ ~run.outcome.rejected
    /\ run.service = "validateForm" => DOMAIN run.outcome.value = {}

\* C17: SUBMIT changes the machine in state idle only, where it starts
\* validating the data sent, and RESET in state success only, where it
\* returns to idle; in state success the services settled since the SUBMIT
\* are validateForm and then submitForm, both successful and both run on
\* the submitted data; a service that fails leaves the machine in idle with
\* errors equal to what the failure carried.
C17_FormMachine ==
    /\ [][(lastOp'.op = "SUBMIT" /\ form.state # "idle") => form' = form]_vars
    /\ [][(lastOp'.op = "SUBMIT" /\ form.state = "idle")
            => (form'.state = "validating" /\ form'.context.data = form'.submitted)]_vars
    /\ [][(lastOp'.op = "RESET" /\ form.state # "success") => form' = form]_vars
    /\ [][(lastOp'.op = "RESET" /\ form.state = "success") => form'.state = "idle"]_vars
    /\ [](form.state = "success" =>
            /\ Len(form.runs) = 2
            /\ form.runs[1].service = "validateForm"
            /\ form.runs[2].service = "submitForm"
            /\ \A i \in 1..2 : Succeeded(form.runs[i]) /\ form.runs[i].data = form.submitted
            /\ form.context.data = form.submitted)
    /\ [][(lastOp'.op \in {"validateForm", "submitForm"} /\ form'.runs # form.runs)
            => LET run == form'.runs[Len(form'.runs)] IN
                 ~Succeeded(run) =>
                     /\ form'.state = "idle"
                     /\ form'.context.errors = run.outcome.value]_vars

\* The second submission has succeeded after the first one failed.
C17_Witness ==
    /\ form.state = "success"
    /\ form.context.submitCount = 2
    /\ form.submitted = WithProperty(EmptyObject, "email", "a")
    /\ lastOp.op = "submitForm"

TypeOK ==
    /\ user.tag \in {"null", "obj"}
    /\ token.tag \in {"null", "str"}
    /\ isAuthenticated \in BOOLEAN
    /\ storage.present \in BOOLEAN
    /\ pc \in {"guard", "screen", "suspended", "settled", "caught"}
    /\ location \in Paths
    /\ mounted \in Screens \cup {"none", "fallback", "ErrorFallback"}
    /\ boundary.hasError \in BOOLEAN

====
